---- MODULE Spec2Model ----
(***************************************************************************)
(* Model of the Excel preprocessing service: service/preprocesss.py        *)
(* (preprocess_excel, calculate_data_score), service/analyses.py           *)
(* (analyze_excel) and main.py (the /preprocess, /analyze and /download    *)
(* handlers).                                                              *)
(*                                                                         *)
(* A DataFrame is a record [names, cols, nrows]: names is the sequence of  *)
(* column labels (each a sequence of characters), cols the sequence of     *)
(* columns (each a sequence of nrows cells).  A cell is a pair             *)
(* <<kind, v>>: <<"null", 0>> is NaN/NaT, <<"num", n>> a number, written   *)
(* in quarter units (4 is 1.0), so that the mean of two middle values is   *)
(* exact, <<"text", k>> a string, k being its rank in string order, and    *)
(* <<"date", k>> a timestamp.                                              *)
(***************************************************************************)
EXTENDS Integers, Sequences, FiniteSets, TLC

VARIABLES reqs, files, again, args, score

vars == <<reqs, files, again, args, score>>

----------------------------------------------------------------------------
(* Bounds of the model.                                                    *)

MaxRows == 3

MaxCols == 3

MaxCells == 6

NumReq == 2

ScoreMaxDim == 3

ScoreMaxCount == 10

----------------------------------------------------------------------------
(* Cells and columns.                                                      *)

Null == <<"null", 0>>

NumVals == {4, 8}

TextVals == {1, 2}

DateVals == {1}

IsNull(c) == c = Null

Max2(a, b) == IF a >= b THEN a ELSE b

Min2(a, b) == IF a <= b THEN a ELSE b

\* The positions 1..Len(s) of s that satisfy keep, in order.
RECURSIVE SelectIdx(_, _, _)
SelectIdx(n, keep, k) ==
    IF k > n THEN <<>>
    ELSE IF k \in keep THEN <<k>> \o SelectIdx(n, keep, k + 1)
    ELSE SelectIdx(n, keep, k + 1)

\* The non-null cells of a column, in row order (Series.dropna).
NonNull(col) ==
    LET idx == SelectIdx(Len(col), {i \in 1..Len(col) : ~IsNull(col[i])}, 1)
    IN  [j \in 1..Len(idx) |-> col[idx[j]]]

\* The dtype pandas gives a column: object when it holds a string,
\* datetime64 when its values are timestamps, float64/int64 otherwise
\* (an all-NaN column is float64).
Dtype(col) ==
    IF \E i \in 1..Len(col) : col[i][1] = "text" THEN "object"
    ELSE IF \E i \in 1..Len(col) : col[i][1] = "date" THEN "datetime64"
    ELSE "number"

\* DataFrame.shape
Shape(df) == <<df.nrows, Len(df.cols)>>

\* DataFrame.empty: any axis of length 0.
IsEmptyAnd(df) == df.nrows = 0 /\ Len(df.cols) = 0

IsEmpty(df) == df.nrows = 0 \/ Len(df.cols) = 0

\* The number of non-null cells of a frame.
CountNotNull(df) ==
    Cardinality({<<j, i>> \in (1..Len(df.cols)) \X (1..df.nrows) :
                    ~IsNull(df.cols[j][i])})

\* df.isnull().sum().sum()
CountNulls(df) ==
    Cardinality({<<j, i>> \in (1..Len(df.cols)) \X (1..df.nrows) :
                    IsNull(df.cols[j][i])})

----------------------------------------------------------------------------
(* Step 1: df.dropna(axis=1, how='all').                                   *)

AllNull(col) == \A i \in 1..Len(col) : IsNull(col[i])

KeepCols(df, keep) ==
    LET idx == SelectIdx(Len(df.cols), keep, 1)
    IN  [names |-> [j \in 1..Len(idx) |-> df.names[idx[j]]],
         cols  |-> [j \in 1..Len(idx) |-> df.cols[idx[j]]],
         nrows |-> df.nrows]

\* dropna(axis=1, how='all') with its result not assigned back to df.
DropNullColsUnassigned(df) == df

DropNullCols(df) ==
    KeepCols(df, {j \in 1..Len(df.cols) : ~AllNull(df.cols[j])})

NullColumnsRemovedSum(cols_before, cols_after) == cols_before + cols_after

NullColumnsRemoved(cols_before, cols_after) == cols_before - cols_after

----------------------------------------------------------------------------
(* Step 2: df.duplicated() / df.drop_duplicates().reset_index(drop=True).  *)

Row(df, i) == [j \in 1..Len(df.cols) |-> df.cols[j][i]]

\* Rows marked by duplicated(keep='first'): equal, cell by cell (NaN equal
\* to NaN), to an earlier row.  A frame with no column or no row is
\* DataFrame.empty: duplicated() is then an empty Series and
\* drop_duplicates() a copy.
Duplicated(df) ==
    IF IsEmpty(df) THEN {}
    ELSE {i \in 1..df.nrows : \E k \in 1..(i - 1) : Row(df, k) = Row(df, i)}

KeepRows(df, keep) ==
    LET idx == SelectIdx(df.nrows, keep, 1)
    IN  [names |-> df.names,
         cols  |-> [j \in 1..Len(df.cols) |->
                        [i \in 1..Len(idx) |-> df.cols[j][idx[i]]]],
         nrows |-> Len(idx)]

DropDuplicates(df) == KeepRows(df, (1..df.nrows) \ Duplicated(df))

----------------------------------------------------------------------------
(* Step 3: imputation.                                                     *)

RECURSIVE Insert(_, _)
Insert(x, s) ==
    IF s = <<>> THEN <<x>>
    ELSE IF x <= Head(s) THEN <<x>> \o s
    ELSE <<Head(s)>> \o Insert(x, Tail(s))

RECURSIVE SortInts(_)
SortInts(s) == IF s = <<>> THEN <<>> ELSE Insert(Head(s), SortInts(Tail(s)))

\* Series.median(): NaN skipped; the middle value, or the mean of the two
\* middle values; NaN when no value is left.
Median(col) ==
    LET nn == NonNull(col)
        s  == SortInts([i \in 1..Len(nn) |-> nn[i][2]])
        n  == Len(s)
    IN  IF n = 0 THEN Null
        ELSE IF n % 2 = 1 THEN <<"num", s[(n + 1) \div 2]>>
        ELSE <<"num", (s[n \div 2] + s[n \div 2 + 1]) \div 2>>

Count(col, v) == Cardinality({i \in 1..Len(col) : col[i] = v})

\* The most frequent non-null value that occurs first in row order.
ModeFirstEncountered(col) ==
    LET nn    == NonNull(col)
        vals  == {nn[i] : i \in 1..Len(nn)}
        modes == {v \in vals : \A w \in vals : Count(col, v) >= Count(col, w)}
        first(v) == CHOOSE i \in 1..Len(col) :
                        col[i] = v /\ \A k \in 1..(i - 1) : col[k] # v
    IN  IF vals = {} THEN Null
        ELSE CHOOSE v \in modes : \A w \in modes : first(v) <= first(w)

\* Series.mode().iloc[0]: the modes are the most frequent non-null values,
\* returned sorted; iloc[0] is the smallest of them.  Null stands for an
\* empty mode() (no non-null value), in which case nothing is filled.
ModeFirst(col) ==
    LET nn    == NonNull(col)
        vals  == {nn[i] : i \in 1..Len(nn)}
        modes == {v \in vals : \A w \in vals : Count(col, v) >= Count(col, w)}
    IN  IF vals = {} THEN Null
        ELSE CHOOSE v \in modes : \A w \in modes : v[2] <= w[2]

\* Series.fillna(value): a NaN value fills nothing.
Fillna(col, v) ==
    IF IsNull(v) THEN col
    ELSE [i \in 1..Len(col) |-> IF IsNull(col[i]) THEN v ELSE col[i]]

\* fillna(method='ffill') on one column.
RECURSIVE FfillFrom(_, _, _)
FfillFrom(col, k, last) ==
    IF k > Len(col) THEN <<>>
    ELSE LET c == IF IsNull(col[k]) THEN last ELSE col[k]
         IN  <<c>> \o FfillFrom(col, k + 1, c)

\* fillna(method='ffill', limit=1): only the first NaN after a value.
FfillLimit1(col) ==
    [i \in 1..Len(col) |->
        IF IsNull(col[i]) /\ i > 1 THEN col[i - 1] ELSE col[i]]

Ffill(col) == FfillFrom(col, 1, Null)

Reverse(s) == [i \in 1..Len(s) |-> s[Len(s) + 1 - i]]

\* fillna(method='bfill') on one column.
Bfill(col) == Reverse(FfillFrom(Reverse(col), 1, Null))

WithCols(df, cols) == [names |-> df.names, cols |-> cols, nrows |-> df.nrows]

\* df[numeric_cols] = df[numeric_cols].fillna(df[numeric_cols].median())
FillNumeric(df) ==
    WithCols(df, [j \in 1..Len(df.cols) |->
        IF Dtype(df.cols[j]) = "number"
        THEN Fillna(df.cols[j], Median(df.cols[j]))
        ELSE df.cols[j]])

\* df[col] = df[col].fillna(mode_val.iloc[0]) for the object columns
FillCategorical(df) ==
    WithCols(df, [j \in 1..Len(df.cols) |->
        IF Dtype(df.cols[j]) = "object"
        THEN Fillna(df.cols[j], ModeFirst(df.cols[j]))
        ELSE df.cols[j]])

\* df.fillna(method='ffill'); df.fillna(method='bfill')
FillResidual(df) ==
    WithCols(df, [j \in 1..Len(df.cols) |-> Bfill(Ffill(df.cols[j]))])

Impute(df) == FillResidual(FillCategorical(FillNumeric(df)))

----------------------------------------------------------------------------
(* Step 4: str(col).strip().replace(" ", "_").lower()                      *)

RECURSIVE LStrip(_)
LStrip(s) ==
    IF s # <<>> /\ Head(s) = " " THEN LStrip(Tail(s)) ELSE s

Strip(s) == Reverse(LStrip(Reverse(LStrip(s))))

Lower(ch) ==
    CASE ch = "A" -> "a"
      [] ch = "B" -> "b"
      [] ch = "Q" -> "q"
      [] OTHER    -> ch

NormalizeName(s) ==
    LET t == Strip(s)
    IN  [i \in 1..Len(t) |-> Lower(IF t[i] = " " THEN "_" ELSE t[i])]

NormalizeColumns(df) ==
    [names |-> [j \in 1..Len(df.names) |-> NormalizeName(df.names[j])],
     cols  |-> df.cols,
     nrows |-> df.nrows]

----------------------------------------------------------------------------
(* calculate_data_score.  Sub-scores are exact fractions <<num, den>> with *)
(* den > 0; the returned score is written in hundredths (10000 is 100.0),  *)
(* which is what round(final_score, 2) keeps.                              *)

\* max(0, 100 - (missing_after / total_cells * 100))
CompletenessRaw(total_cells, missing_after) ==
    <<100 * total_cells - 100 * missing_after, total_cells>>

Completeness(total_cells, missing_after) ==
    IF 100 * total_cells - 100 * missing_after >= 0
    THEN <<100 * total_cells - 100 * missing_after, total_cells>>
    ELSE <<0, 1>>

\* (missing_before - missing_after) / missing_before * 100 if
\* missing_before > 0 else 100, then max(0, min(100, improvement))
Improvement(missing_before, missing_after) ==
    IF missing_before > 0
    THEN <<Max2(0, Min2(100 * missing_before,
                        100 * (missing_before - missing_after))),
           missing_before>>
    ELSE <<100, 1>>

\* max(0, 100 - (duplicates_removed / original_rows * 100)) if
\* original_rows > 0 else 100
Consistency(original_rows, duplicates_removed) ==
    IF original_rows > 0
    THEN <<Max2(0, 100 * original_rows - 100 * duplicates_removed),
           original_rows>>
    ELSE <<100, 1>>

\* round(x, 2) of the fraction n / d (d > 0), in hundredths: the nearest
\* hundredth, a tie going to the even one.
Round2(n, d) ==
    LET q == (100 * n) \div d
        r == (100 * n) % d
    IN  IF 2 * r > d THEN q + 1
        ELSE IF 2 * r = d THEN q + (q % 2)
        ELSE q

\* (0.4 * completeness) + (0.3 * improvement) + (0.3 * consistency), as the
\* fraction <<num, den>> (the weights are 4/10, 3/10, 3/10).
WeightedSum(c, i, k) ==
    <<4 * c[1] * i[2] * k[2] + 3 * i[1] * c[2] * k[2] + 3 * k[1] * c[2] * i[2],
      10 * c[2] * i[2] * k[2]>>

\* The score without the total_cells == 0 short-circuit: a zero divisor
\* makes its sub-score the "otherwise" value 100.
ScoreNoShortCircuit(original_rows, original_cols, missing_before, missing_after, duplicates_removed) ==
    LET total_cells == original_rows * original_cols
        c == IF total_cells = 0 THEN <<100, 1>>
             ELSE Completeness(total_cells, missing_after)
        f == WeightedSum(c, Improvement(missing_before, missing_after),
                         Consistency(original_rows, duplicates_removed))
    IN  Max2(0, Min2(10000, Round2(f[1], f[2])))

\* The score with neither the clamp of completeness nor the final clamp.
ScoreNoClamp(original_rows, original_cols, missing_before, missing_after, duplicates_removed) ==
    LET total_cells == original_rows * original_cols
        f == WeightedSum(CompletenessRaw(total_cells, missing_after),
                         Improvement(missing_before, missing_after),
                         Consistency(original_rows, duplicates_removed))
    IN  IF total_cells = 0 THEN 0 ELSE Round2(f[1], f[2])

\* The score with the weights 0.4, 0.3, 0.2.
ScoreWeights432(original_rows, original_cols, missing_before, missing_after, duplicates_removed) ==
    LET total_cells == original_rows * original_cols
        c == Completeness(total_cells, missing_after)
        i == Improvement(missing_before, missing_after)
        k == Consistency(original_rows, duplicates_removed)
        n == 4 * c[1] * i[2] * k[2] + 3 * i[1] * c[2] * k[2]
               + 2 * k[1] * c[2] * i[2]
    IN  IF total_cells = 0 THEN 0
        ELSE Max2(0, Min2(10000, Round2(n, 10 * c[2] * i[2] * k[2])))

calculate_data_score(original_rows, original_cols, missing_before, missing_after, duplicates_removed) ==
    LET total_cells == original_rows * original_cols
        f == WeightedSum(Completeness(total_cells, missing_after),
                         Improvement(missing_before, missing_after),
                         Consistency(original_rows, duplicates_removed))
    IN  IF total_cells = 0 THEN 0
        ELSE Max2(0, Min2(10000, Round2(f[1], f[2])))

----------------------------------------------------------------------------
(* preprocess_excel.                                                       *)

NoFrame == [names |-> <<>>, cols |-> <<>>, nrows |-> -1]

NoData ==
    [original_rows |-> 0, original_columns |-> 0,
     processed_rows |-> 0, processed_columns |-> 0,
     missing_values_before |-> 0, missing_values_after |-> 0,
     duplicates_removed |-> 0, null_columns_removed |-> 0,
     data_quality_score |-> 0, cleaned_file_path |-> "",
     file_download_url |-> "", analysis |-> FALSE]

\* A response body: has_data tells whether it carries the "data" key.
Failure(error) ==
    [success |-> FALSE, error |-> error, has_data |-> FALSE, data |-> NoData]

\* Steps 1 to 4 on a parsed, non-empty frame, with the statistics the code
\* keeps on the way.
CleanStages(df) ==
    LET original_rows  == Shape(df)[1]
        original_cols  == Shape(df)[2]
        cols_before    == Len(df.cols)
        df1            == DropNullCols(df)
        duplicates_before == Cardinality(Duplicated(df1))
        df2            == DropDuplicates(df1)
        df3            == Impute(df2)
    IN  [df |-> NormalizeColumns(df3),
         original_rows |-> original_rows,
         original_cols |-> original_cols,
         null_columns_removed |-> NullColumnsRemoved(cols_before, Len(df1.cols)),
         duplicates_removed |-> duplicates_before,
         missing_before |-> CountNulls(df),
         missing_after |-> CountNulls(df3)]

\* os.path.join("processed_data", output_filename), output_filename being
\* the upload's own filename: the path within processed_data.
OutputPath(filename) == filename

\* The success response of preprocess_excel.
SuccessData(st, filename) ==
    [original_rows |-> st.original_rows,
     original_columns |-> st.original_cols,
     processed_rows |-> Shape(st.df)[1],
     processed_columns |-> Shape(st.df)[2],
     missing_values_before |-> st.missing_before,
     missing_values_after |-> st.missing_after,
     duplicates_removed |-> st.duplicates_removed,
     null_columns_removed |-> st.null_columns_removed,
     data_quality_score |->
         calculate_data_score(st.original_rows, st.original_cols,
                              st.missing_before, st.missing_after,
                              st.duplicates_removed),
     cleaned_file_path |-> OutputPath(filename),
     file_download_url |-> OutputPath(filename),
     analysis |-> FALSE]

\* What is left at the output path when df.to_excel raised after the file
\* was opened for writing: not the cleaned frame.
Partial == [names |-> <<>>, cols |-> <<>>, nrows |-> -2]

\* df.to_excel(output_path): "ok"; "refused" (it raises before the file is
\* created); "broken" (it raises after the file was opened for writing).
SaveOutcomes == {"ok", "refused", "broken"}

\* preprocess_excel saving before it checks for an empty frame: the file is
\* written even when the call then fails.
PreprocessSaveFirst(upload, filename, save) ==
    LET st == CleanStages(upload.df)
    IN  IF ~upload.parses
        THEN [result |-> Failure("Processing error"), wrote |-> FALSE,
              df |-> NoFrame]
        ELSE IF save = "refused"
        THEN [result |-> Failure("Processing error"), wrote |-> FALSE,
              df |-> NoFrame]
        ELSE IF save = "broken"
        THEN [result |-> Failure("Processing error"), wrote |-> TRUE,
              df |-> Partial]
        ELSE IF IsEmpty(upload.df)
        THEN [result |-> Failure("Empty file"), wrote |-> TRUE, df |-> st.df]
        ELSE [result |-> [success |-> TRUE, error |-> "", has_data |-> TRUE,
                          data |-> SuccessData(st, filename)],
              wrote |-> TRUE, df |-> st.df]

\* preprocess_excel(file) as a function of the upload (whether
\* pd.read_excel parses it, and the parsed frame), its filename and what
\* df.to_excel does: the response, whether processed_data/<filename> was
\* written, and what was written there.
Preprocess(upload, filename, save) ==
    LET st == CleanStages(upload.df)
    IN  IF ~upload.parses
        THEN [result |-> Failure("Processing error"), wrote |-> FALSE,
              df |-> NoFrame]
        ELSE IF IsEmpty(upload.df)
        THEN [result |-> Failure("Empty file"), wrote |-> FALSE,
              df |-> NoFrame]
        ELSE IF save = "refused"
        THEN [result |-> Failure("Processing error"), wrote |-> FALSE,
              df |-> NoFrame]
        ELSE IF save = "broken"
        THEN [result |-> Failure("Processing error"), wrote |-> TRUE,
              df |-> Partial]
        ELSE [result |-> [success |-> TRUE, error |-> "", has_data |-> TRUE,
                          data |-> SuccessData(st, filename)],
              wrote |-> TRUE, df |-> st.df]

\* analyze_excel(file): preprocess_excel, then the read-back of the cleaned
\* file, the summary and the charts.  outcome is what the rest of the try
\* block does: "ok", "chart_error" (generate_visualizations returned
\* {"error": ...}) or "exception".
Analyze(upload, filename, save, outcome) ==
    LET p == Preprocess(upload, filename, save)
    IN  IF ~p.result.success THEN p
        ELSE IF outcome = "exception"
        THEN [p EXCEPT !.result = Failure("Analysis failed")]
        ELSE IF outcome = "chart_error"
        THEN [p EXCEPT !.result = Failure("Chart generation failed")]
        ELSE [p EXCEPT !.result.data.analysis = TRUE]

----------------------------------------------------------------------------
(* main.py: the handlers, and the uploads they are given.                  *)

\* The uploads' filenames; the first two end in .xlsx.
ExcelNames == {"a.xlsx", "b.xlsx"}

Filenames == ExcelNames \cup {"notes.txt"}

\* file.filename.endswith(('.xlsx', '.xls'))
ValidName(filename) == filename \in ExcelNames

BadBytes == [parses |-> FALSE, df |-> NoFrame]

Parsed(df) == [parses |-> TRUE, df |-> df]

NotFetched == [status |-> 0, body |-> NoFrame]

\* download_file(filename) for a filename without ".." or "/".
download_file(filename, dir) ==
    IF dir[filename] = NoFrame
    THEN [status |-> 404, body |-> NoFrame]
    ELSE [status |-> 200, body |-> dir[filename]]

Idle ==
    [pc |-> "idle", endpoint |-> "", filename |-> "", upload |-> BadBytes,
     result |-> Failure(""), wrote |-> FALSE, cleaned |-> NoFrame,
     got |-> NotFetched]

\* The column labels pd.read_excel gives (pairwise distinct: read_excel
\* renames repeated headers).  Two header rows are modelled: one whose
\* labels stay distinct when normalized, one whose first two labels are
\* "A B" and "a_b".
Digits == <<"1", "2", "3", "4", "5", "6", "7">>

PlainLabel(j) == <<" ", "Q", " ", Digits[j], " ">>

MixedLabel(j) ==
    IF j = 1 THEN <<"A", " ", "B">>
    ELSE IF j = 2 THEN <<"a", "_", "b">>
    ELSE PlainLabel(j)

Headers(c) == {[j \in 1..c |-> PlainLabel(j)], [j \in 1..c |-> MixedLabel(j)]}

\* The columns of r cells: all null, or numbers, strings or timestamps with
\* nulls among them.
ColumnsOf(r) ==
    LET of(kind, vals) == [1..r -> {Null} \cup {<<kind, v>> : v \in vals}]
    IN  of("num", NumVals) \cup of("text", TextVals) \cup of("date", DateVals)

\* The frames pd.read_excel can return within the bounds: r rows and c
\* columns; a sheet without a column has no row.
Frames(max_rows, max_cols, max_cells) ==
    UNION {
      {[names |-> h, cols |-> cs, nrows |-> rc[1]] :
           h \in Headers(rc[2]), cs \in [1..rc[2] -> ColumnsOf(rc[1])]} :
      rc \in {x \in (0..max_rows) \X (0..max_cols) :
                 x[1] * x[2] <= max_cells /\ (x[2] = 0 => x[1] = 0)}}

OneColumn(col) ==
    [names |-> <<PlainLabel(1)>>, cols |-> <<col>>, nrows |-> Len(col)]

\* The uploads of the service runs: bytes that do not parse, a sheet with a
\* header row only, and two sheets with data.
SvcUploads ==
    {BadBytes,
     Parsed(OneColumn(<<>>)),
     Parsed(OneColumn(<<<<"num", 4>>, Null>>)),
     Parsed(OneColumn(<<<<"num", 8>>>>))}

Outcomes == {"ok", "chart_error", "exception"}

\* A request arrives and its handler (preprocess_file or analyze_file) runs
\* to its first suspension, the await of file.read(): a filename that is
\* not an Excel one is answered 400 and the upload is never read.
Receive(r) ==
    /\ reqs[r].pc = "idle"
    /\ \A q \in DOMAIN reqs : q < r => reqs[q].pc # "idle"
    /\ \E endpoint \in {"preprocess", "analyze"}, filename \in Filenames,
          upload \in SvcUploads :
         reqs' = [reqs EXCEPT ![r] =
            IF ValidName(filename)
            THEN [Idle EXCEPT !.pc = "reading", !.endpoint = endpoint,
                              !.filename = filename, !.upload = upload]
            ELSE [Idle EXCEPT !.pc = "done", !.endpoint = endpoint,
                              !.filename = filename,
                              !.result = Failure("Invalid file type")]]
    /\ UNCHANGED <<files, again, args, score>>

Finish(r, out) ==
    /\ reqs' = [reqs EXCEPT ![r].pc = "done", ![r].result = out.result,
                            ![r].wrote = out.wrote, ![r].cleaned = out.df]
    /\ files' = IF out.wrote
                THEN [files EXCEPT ![OutputPath(reqs[r].filename)] = out.df]
                ELSE files

\* preprocess_file resumes: preprocess_excel runs from the read to its
\* return without suspending.
PreprocessFile(r) ==
    /\ reqs[r].pc = "reading"
    /\ reqs[r].endpoint = "preprocess"
    /\ \E save \in SaveOutcomes :
         Finish(r, Preprocess(reqs[r].upload, reqs[r].filename, save))
    /\ UNCHANGED <<again, args, score>>

\* analyze_file resumes: analyze_excel runs to its return (none of the
\* coroutines it awaits suspends).
AnalyzeFile(r) ==
    /\ reqs[r].pc = "reading"
    /\ reqs[r].endpoint = "analyze"
    /\ \E save \in SaveOutcomes, outcome \in Outcomes :
         Finish(r, Analyze(reqs[r].upload, reqs[r].filename, save, outcome))
    /\ UNCHANGED <<again, args, score>>

\* The client of a successful request fetches its file_download_url.
Download(r) ==
    /\ reqs[r].pc = "done"
    /\ reqs[r].result.has_data
    /\ reqs[r].got = NotFetched
    /\ reqs' = [reqs EXCEPT ![r].got =
                   download_file(reqs[r].result.data.file_download_url, files)]
    /\ UNCHANGED <<files, again, args, score>>

NotScored == [scored |-> FALSE, value |-> 0]

NoArgs ==
    [original_rows |-> 0, original_cols |-> 0, missing_before |-> 0,
     missing_after |-> 0, duplicates_removed |-> 0]

NotRun ==
    [ran |-> FALSE, null_columns_removed |-> 0, duplicates_removed |-> 0,
     missing_after |-> 0]

Init ==
    /\ reqs = [r \in 1..NumReq |-> Idle]
    /\ files = [f \in ExcelNames |-> NoFrame]
    /\ again = NotRun
    /\ args = NoArgs
    /\ score = NotScored

Next ==
    \/ \E r \in DOMAIN reqs : Receive(r)
    \/ \E r \in DOMAIN reqs : PreprocessFile(r)
    \/ \E r \in DOMAIN reqs : AnalyzeFile(r)
    \/ \E r \in DOMAIN reqs : Download(r)

Spec == Init /\ [][Next]_vars

----------------------------------------------------------------------------
(* The cleaning of one upload, over every frame within the bounds, and a   *)
(* second run of the stages on the cleaned frame.                          *)

InitClean ==
    /\ \E df \in Frames(MaxRows, MaxCols, MaxCells) :
         reqs = [r \in {1} |->
                    [Idle EXCEPT !.pc = "reading", !.endpoint = "preprocess",
                                 !.filename = "a.xlsx", !.upload = Parsed(df)]]
    /\ files = [f \in ExcelNames |-> NoFrame]
    /\ again = NotRun
    /\ args = NoArgs
    /\ score = NotScored

\* The stages run again on the cleaned frame of request 1.
Reclean ==
    /\ reqs[1].pc = "done"
    /\ reqs[1].result.success
    /\ ~again.ran
    /\ LET st == CleanStages(reqs[1].cleaned)
       IN  again' = [ran |-> TRUE,
                     null_columns_removed |-> st.null_columns_removed,
                     duplicates_removed |-> st.duplicates_removed,
                     missing_after |-> st.missing_after]
    /\ UNCHANGED <<reqs, files, args, score>>

NextClean == PreprocessFile(1) \/ Reclean

SpecClean == InitClean /\ [][NextClean]_vars

----------------------------------------------------------------------------
(* calculate_data_score over statistics with non-negative counts,          *)
(* consistent or not.                                                      *)

InitScore ==
    /\ args \in [original_rows : 0..ScoreMaxDim,
                 original_cols : 0..ScoreMaxDim,
                 missing_before : 0..ScoreMaxCount,
                 missing_after : 0..ScoreMaxCount,
                 duplicates_removed : 0..ScoreMaxCount]
    /\ reqs = [r \in {1} |-> Idle]
    /\ files = [f \in ExcelNames |-> NoFrame]
    /\ again = NotRun
    /\ score = NotScored

Score ==
    /\ ~score.scored
    /\ score' = [scored |-> TRUE, value |->
                  calculate_data_score(args.original_rows, args.original_cols,
                                     args.missing_before, args.missing_after,
                                     args.duplicates_removed)]
    /\ UNCHANGED <<reqs, files, again, args>>

NextScore == Score

SpecScore == InitScore /\ [][NextScore]_vars

----------------------------------------------------------------------------
(* The claims.                                                             *)

Succeeded(r) == reqs[r].pc = "done" /\ reqs[r].result.success

Failed(r) == reqs[r].pc = "done" /\ ~reqs[r].result.success

\* C1, as stated: a second run of the stages on the cleaned frame removes
\* no duplicate row and no all-null column, and reports the missing_after
\* of the first run.
C1_Idempotent ==
    again.ran =>
        /\ again.duplicates_removed = 0
        /\ again.null_columns_removed = 0
        /\ again.missing_after = reqs[1].result.data.missing_values_after

\* C1, amended: a second run of the stages on the cleaned frame removes no
\* all-null column and reports the missing_after of the first run (it may
\* remove duplicate rows: imputation can make distinct rows equal).
C1_RecleanKeepsColumnsAndMissing ==
    again.ran =>
        /\ again.null_columns_removed = 0
        /\ again.missing_after = reqs[1].result.data.missing_values_after

\* C1's case: the second run happened after a first run that removed an
\* all-null column and a duplicate row and imputed nulls, and it removed a
\* duplicate row again.
C1_Witness ==
    /\ again.ran
    /\ reqs[1].result.data.null_columns_removed > 0
    /\ reqs[1].result.data.duplicates_removed > 0
    /\ reqs[1].result.data.missing_values_before
         > reqs[1].result.data.original_rows
             * reqs[1].result.data.null_columns_removed
    /\ again.duplicates_removed > 0

\* C2, as stated: two invocations that stored a cleaned file stored it
\* under different paths, and a download of an invocation's
\* file_download_url returns that invocation's own cleaned frame.
C2_DistinctOutputs ==
    /\ \A r, q \in DOMAIN reqs :
          (r # q /\ Succeeded(r) /\ Succeeded(q)) =>
              reqs[r].result.data.cleaned_file_path
                  # reqs[q].result.data.cleaned_file_path
    /\ \A r \in DOMAIN reqs :
          (Succeeded(r) /\ reqs[r].got # NotFetched) =>
              reqs[r].got = [status |-> 200, body |-> reqs[r].cleaned]

\* C3, as stated: a failed invocation returns no data bundle and has
\* written nothing under processed_data.
C3_FailureWritesNothing ==
    \A r \in DOMAIN reqs :
        Failed(r) => ~reqs[r].result.has_data /\ ~reqs[r].wrote

\* C3, amended: a failed invocation returns no data bundle; it has written
\* nothing under processed_data when it failed before the save step (the
\* filename refused, the upload unparseable or the frame empty).
C3_FailureBeforeSaveWritesNothing ==
    \A r \in DOMAIN reqs :
        Failed(r) =>
            /\ ~reqs[r].result.has_data
            /\ reqs[r].result.data = NoData
            /\ (\/ ~ValidName(reqs[r].filename)
                \/ ~reqs[r].upload.parses
                \/ reqs[r].upload.df.nrows = 0
                \/ Len(reqs[r].upload.df.cols) = 0) => ~reqs[r].wrote

\* C3's case: a /preprocess call failed on an empty frame and an /analyze
\* call failed after its preprocessing had stored the cleaned file.
C3_Witness ==
    \E r, q \in DOMAIN reqs :
        /\ Failed(r) /\ reqs[r].result.error = "Empty file"
        /\ reqs[r].endpoint = "preprocess"
        /\ Failed(q) /\ reqs[q].result.error = "Chart generation failed"
        /\ reqs[q].wrote

\* C4: after a successful preprocess_excel, missing_after <= missing_before.
C4_MissingAfterLeBefore ==
    Succeeded(1) =>
        reqs[1].result.data.missing_values_after
            <= reqs[1].result.data.missing_values_before

\* C4's case: a successful run on a frame with nulls, some in a column that
\* survives, whose duplicate removal dropped a row.
C4_Witness ==
    /\ Succeeded(1)
    /\ reqs[1].result.data.null_columns_removed = 0
    /\ reqs[1].result.data.missing_values_before > 1
    /\ reqs[1].result.data.duplicates_removed > 0
    /\ reqs[1].result.data.missing_values_after = 0

Distinct(s) == \A i, j \in 1..Len(s) : i # j => s[i] # s[j]

\* C5, as stated: the cleaned frame's column names are pairwise distinct
\* whenever the original ones are.
C5_NamesDistinct ==
    (Succeeded(1) /\ Distinct(reqs[1].upload.df.names)) =>
        Distinct(reqs[1].cleaned.names)

\* C7: a frame with no row or no column is answered "Empty file", without
\* a data bundle and without a file written; a frame with a row and a
\* column is never answered "Empty file".
C7_EmptyRejectedFirst ==
    reqs[1].pc = "done" =>
        /\ (Shape(reqs[1].upload.df)[1] = 0 \/ Shape(reqs[1].upload.df)[2] = 0)
              =>
              /\ reqs[1].result = Failure("Empty file")
              /\ ~reqs[1].wrote
              /\ \A f \in DOMAIN files : files[f] = NoFrame
        /\ (Shape(reqs[1].upload.df)[1] > 0 /\ Shape(reqs[1].upload.df)[2] > 0)
              => reqs[1].result.error # "Empty file"

\* C7's case: a sheet with header cells and no data row was rejected.
C7_Witness ==
    /\ reqs[1].pc = "done"
    /\ Shape(reqs[1].upload.df)[1] = 0
    /\ Shape(reqs[1].upload.df)[2] > 0
    /\ reqs[1].result.error = "Empty file"

\* C10: after a successful preprocess_excel, duplicates_removed <=
\* original_rows and null_columns_removed <= original_cols.
C10_RemovedWithinShape ==
    Succeeded(1) =>
        /\ reqs[1].result.data.duplicates_removed
              <= Shape(reqs[1].upload.df)[1]
        /\ reqs[1].result.data.null_columns_removed
              <= Shape(reqs[1].upload.df)[2]
        /\ reqs[1].result.data.original_rows = Shape(reqs[1].upload.df)[1]
        /\ reqs[1].result.data.original_columns = Shape(reqs[1].upload.df)[2]

\* C10's case: a run that removed both duplicate rows and all-null columns
\* and kept a column.
C10_Witness ==
    /\ Succeeded(1)
    /\ reqs[1].result.data.duplicates_removed > 1
    /\ reqs[1].result.data.null_columns_removed > 0
    /\ reqs[1].result.data.processed_columns > 0

TotalCells == args.original_rows * args.original_cols

\* C6: the score is within [0, 100] for all non-negative statistics.
C6_ScoreInRange == score.scored => (0 <= score.value /\ score.value <= 10000)

\* C6's case: scored statistics that are inconsistent in all three ways.
C6_Witness ==
    /\ score.scored
    /\ TotalCells > 0
    /\ args.missing_after > args.missing_before
    /\ args.missing_after > TotalCells
    /\ args.duplicates_removed > args.original_rows

\* C8: with total_cells > 0, no missing value before or after and no
\* duplicate removed, the score is exactly 100.0.
C8_PerfectScore ==
    (/\ score.scored
     /\ TotalCells > 0
     /\ args.missing_before = 0
     /\ args.missing_after = 0
     /\ args.duplicates_removed = 0) => score.value = 10000

\* C8's case: such statistics, scored.
C8_Witness ==
    /\ score.scored
    /\ TotalCells > 1
    /\ args.missing_before = 0
    /\ args.missing_after = 0
    /\ args.duplicates_removed = 0

\* C9: the score is 0 whenever original_rows * original_cols = 0.
C9_ZeroCellsZeroScore == (score.scored /\ TotalCells = 0) => score.value = 0

\* C9's case: no cell, scored, with statistics whose sub-scores would not
\* all be 0.
C9_Witness ==
    /\ score.scored
    /\ TotalCells = 0
    /\ args.original_rows > 0
    /\ args.missing_before > args.missing_after
    /\ args.duplicates_removed = 0

\* The frame of request 1 as imputation receives it: after the all-null
\* columns and the duplicate rows were removed.
BeforeImpute == DropDuplicates(DropNullCols(reqs[1].upload.df))

\* The non-null values of a column that share its highest frequency.
TiedModes(col) ==
    LET vals == {col[i] : i \in {k \in 1..Len(col) : col[k] # Null}}
        n(v) == Cardinality({i \in 1..Len(col) : col[i] = v})
    IN  {v \in vals : \A w \in vals : n(v) >= n(w)}

FirstAt(col, v) ==
    CHOOSE i \in 1..Len(col) : col[i] = v /\ \A k \in 1..(i - 1) : col[k] # v

\* The text columns in which several values share the highest frequency.
TiedTextCols ==
    {j \in 1..Len(BeforeImpute.cols) :
        /\ \E i \in 1..BeforeImpute.nrows : BeforeImpute.cols[j][i][1] = "text"
        /\ Cardinality(TiedModes(BeforeImpute.cols[j])) > 1}

\* C11, as stated: in a text column with tied most frequent values, every
\* null is replaced by the tied value that occurs first in row order.
C11_TieFirstEncountered ==
    Succeeded(1) =>
        \A j \in TiedTextCols :
            \A i \in 1..BeforeImpute.nrows :
                BeforeImpute.cols[j][i] = Null =>
                    /\ reqs[1].cleaned.cols[j][i] \in TiedModes(BeforeImpute.cols[j])
                    /\ \A w \in TiedModes(BeforeImpute.cols[j]) :
                          FirstAt(BeforeImpute.cols[j], reqs[1].cleaned.cols[j][i])
                              <= FirstAt(BeforeImpute.cols[j], w)

\* C11, amended: in a text column with tied most frequent values, every
\* null is replaced by the tied value that is smallest in string order.
C11_TieSmallest ==
    Succeeded(1) =>
        \A j \in TiedTextCols :
            \A i \in 1..BeforeImpute.nrows :
                BeforeImpute.cols[j][i] = Null =>
                    /\ reqs[1].cleaned.cols[j][i] \in TiedModes(BeforeImpute.cols[j])
                    /\ \A w \in TiedModes(BeforeImpute.cols[j]) :
                          reqs[1].cleaned.cols[j][i][2] <= w[2]

\* C11's case: a cleaned text column that held the larger string first,
\* the smaller one second and a null third.
C11_Witness ==
    /\ Succeeded(1)
    /\ \E j \in TiedTextCols :
          /\ BeforeImpute.nrows = 3
          /\ BeforeImpute.cols[j] = <<<<"text", 2>>, <<"text", 1>>, Null>>
          /\ reqs[1].cleaned.cols[j][3] = <<"text", 1>>

\* The columns of the upload of request 1 are numeric or text (an all-null
\* column is numeric).
NumericOrText ==
    \A j \in 1..Len(reqs[1].upload.df.cols) :
        \A i \in 1..reqs[1].upload.df.nrows :
            reqs[1].upload.df.cols[j][i][1] \in {"null", "num", "text"}

\* C12: after a successful preprocess_excel on numeric and text columns the
\* cleaned frame holds no null and missing_after = 0; every column that is
\* not all null keeps a non-null cell through duplicate removal.
C12_NoResidualNull ==
    (Succeeded(1) /\ NumericOrText) =>
        /\ reqs[1].result.data.missing_values_after = 0
        /\ \A j \in 1..Len(reqs[1].cleaned.cols) :
              \A i \in 1..reqs[1].cleaned.nrows :
                  reqs[1].cleaned.cols[j][i] # Null
        /\ Len(reqs[1].cleaned.cols)
              = Cardinality({j \in 1..Len(reqs[1].upload.df.cols) :
                    \E i \in 1..reqs[1].upload.df.nrows :
                        reqs[1].upload.df.cols[j][i] # Null})
        /\ \A j \in 1..Len(BeforeImpute.cols) :
              \E i \in 1..BeforeImpute.nrows : BeforeImpute.cols[j][i] # Null

\* C12's case: a successful run on numeric and text columns that removed an
\* all-null column and a duplicate row whose surviving columns held nulls.
C12_Witness ==
    /\ Succeeded(1)
    /\ NumericOrText
    /\ reqs[1].result.data.null_columns_removed > 0
    /\ reqs[1].result.data.duplicates_removed > 0
    /\ reqs[1].result.data.missing_values_before
         > reqs[1].result.data.original_rows
             * reqs[1].result.data.null_columns_removed
    /\ reqs[1].result.data.missing_values_after = 0

====
